---- MODULE Spec2Model ----
(***************************************************************************)
(* Model of the nutrition bot of main.py: the conversation that collects   *)
(* a user's body data, the calculation of BMR / TDEE / calorie target, the *)
(* in-memory store of profiles and the commands around them.               *)
(*                                                                         *)
(* Handlers run one at a time (the application handles updates             *)
(* sequentially and every handler is awaited to its end), so each handler  *)
(* is one action.  The one place where a handler waits for the outside     *)
(* world is the request to the text-generation service; a handler that     *)
(* makes it takes two steps, one up to the call and one from its return.   *)
(* The call is client.chat.completions.create of the synchronous client:   *)
(* it does not yield to the event loop, so no other handler runs until it  *)
(* has returned.                                                           *)
(*                                                                         *)
(* Routing follows the handler table that main() registers: the            *)
(* conversation is kept per user, /start enters it, the handler listed     *)
(* for the conversation's state takes the update, /cancel is the fallback  *)
(* in every state, and the handlers registered after the conversation take *)
(* what it leaves.                                                         *)
(*                                                                         *)
(* Representation                                                          *)
(*  - A Python str is a sequence of tokens; a token is one character      *)
(*    ("1", ".", "n") or, in callback data, a whole word ("gender_",      *)
(*    "male").  str.replace(p, "") removes the tokens equal to p.         *)
(*  - A Python float is a record [k, v]: k = "num" with v the value in    *)
(*    fixed point, k = "nan", or k = "inf" with v the sign.  Arithmetic   *)
(*    is exact; the binary rounding of IEEE doubles is not modelled.      *)
(*    Units: weight and height in 1/10, bmr in 1/1000 kcal, tdee and      *)
(*    calories in 1/40000 kcal (the unit in which every product of a bmr  *)
(*    and an activity multiplier is an integer).                          *)
(*  - A Python dict is a function whose DOMAIN is its set of keys.        *)
(*  - In the handlers a generated menu is kept by its kind (menu, apology, *)
(*    unavailable, nothing); the functions that work on the text of a     *)
(*    menu (formatting, splitting into messages) are applied to texts in  *)
(*    specifications of their own, through menu_text and parts.           *)
(***************************************************************************)
EXTENDS Integers, Sequences, FiniteSets, TLC

VARIABLES
    conv,             \* per user: the ConversationHandler state ("END": none)
    user_data,        \* per user: context.user_data, the draft profile
    user_data_store,  \* the module-level dict user_id -> stored profile
    client,           \* whether the text-generation client is configured
    update_id,        \* number of updates handled so far
    last,             \* the update handled last and what the handler did
    call,             \* the handler that is inside client.chat.completions.create
    menu_text,        \* a text of the service, as the menu functions are given it
    parts             \* the messages a menu text is sent as

vars ==
    <<conv, user_data, user_data_store, client, update_id, last, call,
      menu_text, parts>>

-----------------------------------------------------------------------------
(* Bounds of the model *)

\* Updates handled in a run in which more than one user takes part
MaxUpdates == 8

\* Updates handled in a run of one user alone
MaxSoloUpdates == 10

NumUsers == 2

\* The longest answer of the service given to the formatter, in tokens
MaxTextLen == 4

Users == 1..NumUsers

-----------------------------------------------------------------------------
(* Conversation states *)

GENDER == "GENDER"

AGE == "AGE"

WEIGHT == "WEIGHT"

HEIGHT == "HEIGHT"

ACTIVITY == "ACTIVITY"

GOAL == "GOAL"

MENU_CONFIRM == "MENU_CONFIRM"

TIP_AMOUNT == "TIP_AMOUNT"

TIP_CONFIRM == "TIP_CONFIRM"

END == "END"

ConvStates ==
    {GENDER, AGE, WEIGHT, HEIGHT, ACTIVITY, GOAL, MENU_CONFIRM,
     TIP_AMOUNT, TIP_CONFIRM, END}

\* States whose handler is a CallbackQueryHandler without a pattern: it takes
\* every callback query.
CallbackStates == {GENDER, ACTIVITY, GOAL, MENU_CONFIRM, TIP_AMOUNT}

\* States whose handler is MessageHandler(filters.TEXT & ~filters.COMMAND).
TextStates == {AGE, WEIGHT, HEIGHT, TIP_CONFIRM}

-----------------------------------------------------------------------------
(* dict *)

EmptyDict == [k \in {} |-> 0]

Has(d, k) == k \in DOMAIN d

Put(d, k, v) == (k :> v) @@ d

\* d.update(e)
DictUpdate(d, e) == e @@ d

\* del d[k]
Del(d, k) == [j \in (DOMAIN d) \ {k} |-> d[j]]

-----------------------------------------------------------------------------
(* float *)

Num(v) == [k |-> "num", v |-> v]

NaN == [k |-> "nan", v |-> 0]

Inf(sign) == [k |-> "inf", v |-> sign]

\* x < c and x > c for a float x and a finite c in the same unit; every
\* comparison with nan is false.
FLess(x, c) ==
    CASE x.k = "num" -> x.v < c
      [] x.k = "inf" -> x.v < 0
      [] OTHER -> FALSE

FGreater(x, c) ==
    CASE x.k = "num" -> x.v > c
      [] x.k = "inf" -> x.v > 0
      [] OTHER -> FALSE

\* bool(x): zero is false, everything else (nan included) is true
FTruthy(x) == ~(x.k = "num" /\ x.v = 0)

\* x + c for a finite c
FAdd(x, c) == IF x.k = "num" THEN Num(x.v + c) ELSE x

-----------------------------------------------------------------------------
(* str, int(), float() *)

Digits == {"0", "1", "2", "3", "4", "5", "6", "7", "8", "9"}

DigitVal(c) ==
    CASE c = "0" -> 0 [] c = "1" -> 1 [] c = "2" -> 2 [] c = "3" -> 3
      [] c = "4" -> 4 [] c = "5" -> 5 [] c = "6" -> 6 [] c = "7" -> 7
      [] c = "8" -> 8 [] c = "9" -> 9

RECURSIVE LStrip(_)
LStrip(s) == IF s # <<>> /\ Head(s) = " " THEN LStrip(Tail(s)) ELSE s

RECURSIVE RStrip(_)
RStrip(s) ==
    IF s # <<>> /\ s[Len(s)] = " " THEN RStrip(SubSeq(s, 1, Len(s) - 1)) ELSE s

Strip(s) == RStrip(LStrip(s))

AllDigits(s) == s # <<>> /\ \A i \in 1..Len(s) : s[i] \in Digits

RECURSIVE DigitsValue(_)
DigitsValue(s) ==
    IF s = <<>> THEN 0
    ELSE 10 * DigitsValue(SubSeq(s, 1, Len(s) - 1)) + DigitVal(s[Len(s)])

LowerChar(c) ==
    CASE c = "N" -> "n" [] c = "A" -> "a" [] c = "I" -> "i" [] c = "F" -> "f"
      [] OTHER -> c

Lower(s) == [i \in 1..Len(s) |-> LowerChar(s[i])]

\* str.replace(prefix, "")
Replace(s, prefix) == SelectSeq(s, LAMBDA t : t # prefix)

ValueError == [ok |-> FALSE, v |-> 0]

Signed(t) == t # <<>> /\ Head(t) \in {"+", "-"}

SignOf(t) == IF t # <<>> /\ Head(t) = "-" THEN -1 ELSE 1

Unsigned(t) == IF Signed(t) THEN Tail(t) ELSE t

\* int(s): surrounding blanks, an optional sign, decimal digits
int(s) ==
    LET t == Strip(s)
        body == Unsigned(t)
    IN  IF AllDigits(body)
        THEN [ok |-> TRUE, v |-> SignOf(t) * DigitsValue(body)]
        ELSE ValueError

PointAt(s) == IF \E i \in 1..Len(s) : s[i] = "."
              THEN CHOOSE i \in 1..Len(s) : s[i] = "." /\ \A j \in 1..(i-1) : s[j] # "."
              ELSE 0

\* float(s): surrounding blanks, an optional sign, then "nan", "inf" in any
\* letter case, or digits with an optional point.  The value is kept in 1/10:
\* the texts of the model carry at most one digit after the point.
float(s) ==
    LET t == Strip(s)
        body == Unsigned(t)
        p == PointAt(body)
        whole == IF p = 0 THEN body ELSE SubSeq(body, 1, p - 1)
        frac == IF p = 0 THEN <<>> ELSE SubSeq(body, p + 1, Len(body))
        digitsOk == /\ whole \o frac # <<>>
                    /\ \A i \in 1..Len(whole) : whole[i] \in Digits
                    /\ \A i \in 1..Len(frac) : frac[i] \in Digits
    IN  CASE Lower(body) = <<"n", "a", "n">> -> [ok |-> TRUE, v |-> NaN]
          [] Lower(body) = <<"i", "n", "f">> -> [ok |-> TRUE, v |-> Inf(SignOf(t))]
          [] digitsOk ->
                [ok |-> TRUE,
                 v |-> Num(SignOf(t) * (10 * DigitsValue(whole)
                           + (IF frac = <<>> THEN 0 ELSE DigitVal(frac[1]))))]
          [] OTHER -> ValueError

\* str.capitalize() of the two accepted genders
Capitalize(w) == CASE w = "male" -> "Male" [] w = "female" -> "Female"

-----------------------------------------------------------------------------
(* Module-level tables *)

\* list(ACTIVITY_LEVELS.keys()), in insertion order
activity_options ==
    <<"No activity", "Minimal activity", "Medium activity",
      "Above average activity", "High activity">>

\* The table with the multiplier of "Medium activity" mistyped as 1.5
ACTIVITY_LEVELS_mistyped ==
    [a \in {activity_options[i] : i \in 1..Len(activity_options)} |->
        CASE a = "No activity" -> 1200
          [] a = "Minimal activity" -> 1375
          [] a = "Medium activity" -> 1500
          [] a = "Above average activity" -> 1725
          [] a = "High activity" -> 1900]

\* ACTIVITY_LEVELS: the multiplier of each level, in 1/1000
ACTIVITY_LEVELS ==
    [a \in {activity_options[i] : i \in 1..Len(activity_options)} |->
        CASE a = "No activity" -> 1200
          [] a = "Minimal activity" -> 1375
          [] a = "Medium activity" -> 1550
          [] a = "Above average activity" -> 1725
          [] a = "High activity" -> 1900]

goal_options == <<"Lose weight", "Maintain weight", "Gain weight">>

\* The callback data the navigation handler's pattern matches in full
NavChoices ==
    {<<"generate_menu">>, <<"update_info">>, <<"enter_body_data">>,
     <<"view_stats">>, <<"clear_data">>, <<"main_menu">>}

-----------------------------------------------------------------------------
(* Validation and calculation, as the handlers compute them *)

\* age(): not (age < 1 or age > 120)
age_in_range(a) == ~(a < 1 \/ a > 120)

\* weight(): not (weight < 1 or weight > 300), weight in 1/10
weight_in_range(w) == ~(FLess(w, 10) \/ FGreater(w, 3000))

\* height(): not (height < 30 or height > 250), height in 1/10
height_in_range(h) == ~(FLess(h, 300) \/ FGreater(h, 2500))

\* gender(): gender_input in ['male', 'female']
gender_valid(g) == g \in {<<"male">>, <<"female">>}

\* activity() / goal(): not (idx < 0 or idx >= len(options))
index_valid(idx, options) == ~(idx < 0 \/ idx >= Len(options))

\* The two branches of the formula exchanged
BMR_swapped(gender, weight, height, a) ==
    IF weight.k = "num" /\ height.k = "num"
    THEN IF gender = "Male"
         THEN Num(1000 * weight.v + 625 * height.v - 5000 * a - 161000)
         ELSE Num(1000 * weight.v + 625 * height.v - 5000 * a + 5000)
    ELSE NaN

\* goal(): bmr in 1/1000 kcal from weight and height in 1/10 and age in years
BMR(gender, weight, height, a) ==
    IF weight.k = "num" /\ height.k = "num"
    THEN IF gender = "Male"
         THEN Num(1000 * weight.v + 625 * height.v - 5000 * a + 5000)
         ELSE Num(1000 * weight.v + 625 * height.v - 5000 * a - 161000)
    ELSE NaN

\* goal(): tdee = bmr * ACTIVITY_LEVELS[activity], in 1/40000 kcal
TDEE(bmr, act) ==
    IF bmr.k = "num" THEN Num(bmr.v * (ACTIVITY_LEVELS[act] \div 25)) ELSE bmr

\* The two adjustments exchanged: a deficit for "Gain weight", a surplus for
\* "Lose weight"
CALORIES_swapped(tdee, g) ==
    IF g = "Lose weight" THEN FAdd(tdee, 500 * 40000)
    ELSE IF g = "Gain weight" THEN FAdd(tdee, -(500 * 40000))
    ELSE tdee

\* goal(): the calorie target, in 1/40000 kcal
CALORIES(tdee, g) ==
    IF g = "Lose weight" THEN FAdd(tdee, -(500 * 40000))
    ELSE IF g = "Gain weight" THEN FAdd(tdee, 500 * 40000)
    ELSE tdee

\* goal(): the keys read after the goal is set
GoalReads == {"weight", "height", "age", "gender", "activity"}

\* The BMR added to the one an earlier run left in context.user_data
goal_user_data_accumulating(ud) ==
    LET fresh == BMR(ud["gender"], ud["weight"], ud["height"], ud["age"])
        bmr == IF Has(ud, "bmr") /\ ud["bmr"].k = "num"
               THEN FAdd(fresh, ud["bmr"].v) ELSE fresh
        tdee == TDEE(bmr, ud["activity"])
        calories == CALORIES(tdee, ud["goal"])
    IN  Put(Put(Put(ud, "bmr", bmr), "tdee", tdee), "calories", calories)

\* goal(): context.user_data once the three results are written
goal_user_data(ud) ==
    LET bmr == BMR(ud["gender"], ud["weight"], ud["height"], ud["age"])
        tdee == TDEE(bmr, ud["activity"])
        calories == CALORIES(tdee, ud["goal"])
    IN  Put(Put(Put(ud, "bmr", bmr), "tdee", tdee), "calories", calories)

\* The profile stored under one fixed key instead of the user's id
store_profile_fixed_key(store, u, ud) == Put(store, 1, ud)

\* goal(): user_data_store[user_id] = context.user_data.copy()
store_profile(store, u, ud) == Put(store, u, ud)

\* The deletion left out
delete_profile_skipped(store, u) == store

\* clear_data(), handle_navigation(): del user_data_store[user_id]
delete_profile(store, u) == Del(store, u)

\* percentage * calories, for a percentage that is a multiple of 5 and
\* calories in 1/40000 kcal (a multiple of 125); the result in 1/230400 kcal
FTimesPercent(x, pct) ==
    IF x.k = "num" THEN Num((pct \div 5) * (x.v \div 125) * 36) ELSE x

\* x / n for a finite n that divides x
FDiv(x, n) == IF x.k = "num" THEN Num(x.v \div n) ELSE x

\* generate_diet(): the percentages, in percent
protein_percentage(g) == IF g = "Lose weight" THEN 30 ELSE 25

carb_percentage(g) == IF g = "Gain weight" THEN 40 ELSE 35

fat_percentage(g) == IF g = "Lose weight" THEN 30 ELSE 40

\* generate_diet(): the macronutrient distribution of the plan; calories of
\* each macronutrient in 1/230400 kcal, grams in 1/230400 g
diet_plan(calories, g) ==
    LET protein_cal == FTimesPercent(calories, protein_percentage(g))
        carb_cal == FTimesPercent(calories, carb_percentage(g))
        fat_cal == FTimesPercent(calories, fat_percentage(g))
    IN  [calories |-> calories,
         protein_percentage |-> protein_percentage(g),
         carb_percentage |-> carb_percentage(g),
         fat_percentage |-> fat_percentage(g),
         protein_grams |-> FDiv(protein_cal, 4),
         carb_grams |-> FDiv(carb_cal, 4),
         fat_grams |-> FDiv(fat_cal, 9)]

\* The test looking whether anybody has stored a profile
has_previous_data_of_anybody(store, u) == store # EmptyDict

\* start(), handle_navigation(): user_id in store and store[user_id].get('calories')
has_previous_data(store, u) ==
    /\ u \in DOMAIN store
    /\ Has(store[u], "calories")
    /\ FTruthy(store[u]["calories"])

\* generate_diet(), weekly_menu(): the negation of their missing-profile test
has_calories_key(store, u) == u \in DOMAIN store /\ Has(store[u], "calories")

\* generate_diet(), weekly_menu(), handle_navigation():
\* context.user_data.update(user_data_store[user_id])
use_stored_data(ud, store, u) == DictUpdate(ud, store[u])

-----------------------------------------------------------------------------
(* Inputs *)

\* Text messages a user types
TextInputs ==
    {<<"3", "0">>, <<"0">>, <<"n", "a", "n">>, <<"a", "b", "c">>}

\* Callback data of the buttons a user presses (and of stale or foreign ones)
CallbackInputs ==
    {<<"gender_", "male">>, <<"gender_", "female">>, <<"gender_", "MALE">>,
     <<"activity_", "2">>, <<"activity_", "5">>,
     <<"goal_", "0">>, <<"goal_", "1">>, <<"goal_", "3">>,
     <<"menu_", "yes">>, <<"menu_", "no">>,
     <<"tip_", "no">>, <<"tip_", "custom">>,
     <<"generate_menu">>, <<"update_info">>, <<"view_stats">>,
     <<"clear_data">>}

\* The labels of buttons, typed as text messages (one token each), and the
\* conversation state whose keyboard shows the button
ChoiceTexts == {<<"Male">>, <<"Medium activity">>, <<"Lose weight">>}

ChoiceState(inp) ==
    CASE inp = <<"Male">> -> GENDER
      [] inp = <<"Medium activity">> -> ACTIVITY
      [] inp = <<"Lose weight">> -> GOAL

\* What the text-generation service does with one request: it raises, it
\* returns a text that is still non-empty after formatting, or it returns
\* nothing (or a text of which formatting leaves nothing).
CollabOutcomes == {"error", "text", "empty"}

\* The admin commands that read the store
AdminCommands == {<<"/stats">>, <<"/userinfo">>}

-----------------------------------------------------------------------------
(* State *)

NoUpdate ==
    [user |-> 0, handler |-> "none", input |-> <<>>, result |-> "none",
     sent |-> <<>>, requests |-> 0, plan |-> <<>>, stored_before |-> <<>>]

\* No handler is inside the call to the text-generation service
NoCall == [user |-> 0, handler |-> "none"]

Init ==
    /\ conv = [u \in Users |-> END]
    /\ user_data = [u \in Users |-> EmptyDict]
    /\ user_data_store = EmptyDict
    /\ client \in BOOLEAN
    /\ update_id = 0
    /\ last = NoUpdate
    /\ call = NoCall
    /\ menu_text = <<>>
    /\ parts = <<>>

\* No other user has a conversation, a draft or a stored profile.
Alone(u) ==
    \A v \in Users \ {u} :
        conv[v] = END /\ user_data[v] = EmptyDict /\ v \notin DOMAIN user_data_store

\* How many updates a run is followed for
UpdateLimit(u) == IF Alone(u) THEN MaxSoloUpdates ELSE MaxUpdates

\* One update is taken from the queue and handled by handler h, which sends
\* the messages msgs, makes reqs requests to the text-generation service and
\* shows the diet plan `plan` (a sequence: empty when it shows none).  A
\* handler that makes a request ends from inside the call; any other handler
\* runs only while no call is outstanding.  The record of the update keeps
\* the store entry the user had when the update arrived.
HandledWith(u, h, inp, res, msgs, reqs, plan) ==
    /\ update_id < UpdateLimit(u)
    /\ call = IF reqs > 0 THEN [user |-> u, handler |-> h] ELSE NoCall
    /\ call' = NoCall
    /\ update_id' = update_id + 1
    /\ last' = [user |-> u, handler |-> h, input |-> inp, result |-> res,
                sent |-> msgs, requests |-> reqs, plan |-> plan,
                stored_before |-> IF u \in DOMAIN user_data_store
                                  THEN <<user_data_store[u]>> ELSE <<>>]
    /\ UNCHANGED <<client, menu_text, parts>>

Handled(u, h, inp, res, msgs, reqs) == HandledWith(u, h, inp, res, msgs, reqs, <<>>)

\* config.py: the first user administers the bot, the others do not, and
\* the tipping options are defined
BOT_ADMINS == {1}

TIP_AMOUNTS == TRUE

is_admin(u) == u \in BOT_ADMINS

-----------------------------------------------------------------------------
(* The conversation: entry point and the six intake steps *)

\* The state each intake handler returns once its input is accepted
gender_returns == AGE

age_returns == WEIGHT

\* weight() returning ACTIVITY instead: the height step is skipped
weight_returns_skipping == ACTIVITY

weight_returns == HEIGHT

height_returns == ACTIVITY

activity_returns == GOAL

goal_returns == MENU_CONFIRM

\* start(): the entry point, taken only when the user has no conversation
start(u) ==
    /\ conv[u] = END
    /\ IF has_previous_data(user_data_store, u)
       THEN /\ conv' = [conv EXCEPT ![u] = MENU_CONFIRM]
            /\ Handled(u, "start", <<"/start">>, "returning", <<"welcome_back">>, 0)
       ELSE /\ conv' = [conv EXCEPT ![u] = GENDER]
            /\ Handled(u, "start", <<"/start">>, "new", <<"welcome", "ask_gender">>, 0)
    /\ UNCHANGED <<user_data, user_data_store>>

gender(u, data) ==
    /\ conv[u] = GENDER
    /\ LET gender_input == Replace(data, "gender_")
       IN  IF ~gender_valid(gender_input)
           THEN /\ Handled(u, "gender", data, "reprompt", <<"ask_valid_gender">>, 0)
                /\ UNCHANGED <<conv, user_data>>
           ELSE /\ user_data' = [user_data EXCEPT
                                   ![u] = Put(@, "gender", Capitalize(gender_input[1]))]
                /\ conv' = [conv EXCEPT ![u] = gender_returns]
                /\ Handled(u, "gender", data, "accepted", <<"ask_age">>, 0)
    /\ UNCHANGED user_data_store

age(u, text) ==
    /\ conv[u] = AGE
    /\ LET parsed == int(text)
       IN  IF ~parsed.ok
           THEN /\ Handled(u, "age", text, "reprompt", <<"age_not_a_number">>, 0)
                /\ UNCHANGED <<conv, user_data>>
           ELSE IF ~age_in_range(parsed.v)
           THEN /\ Handled(u, "age", text, "reprompt", <<"age_out_of_range">>, 0)
                /\ UNCHANGED <<conv, user_data>>
           ELSE /\ user_data' = [user_data EXCEPT ![u] = Put(@, "age", parsed.v)]
                /\ conv' = [conv EXCEPT ![u] = age_returns]
                /\ Handled(u, "age", text, "accepted", <<"ask_weight">>, 0)
    /\ UNCHANGED user_data_store

weight(u, text) ==
    /\ conv[u] = WEIGHT
    /\ LET parsed == float(text)
       IN  IF ~parsed.ok
           THEN /\ Handled(u, "weight", text, "reprompt", <<"weight_not_a_number">>, 0)
                /\ UNCHANGED <<conv, user_data>>
           ELSE IF ~weight_in_range(parsed.v)
           THEN /\ Handled(u, "weight", text, "reprompt", <<"weight_out_of_range">>, 0)
                /\ UNCHANGED <<conv, user_data>>
           ELSE /\ user_data' = [user_data EXCEPT ![u] = Put(@, "weight", parsed.v)]
                /\ conv' = [conv EXCEPT ![u] = weight_returns]
                /\ Handled(u, "weight", text, "accepted", <<"ask_height">>, 0)
    /\ UNCHANGED user_data_store

height(u, text) ==
    /\ conv[u] = HEIGHT
    /\ LET parsed == float(text)
       IN  IF ~parsed.ok
           THEN /\ Handled(u, "height", text, "reprompt", <<"height_not_a_number">>, 0)
                /\ UNCHANGED <<conv, user_data>>
           ELSE IF ~height_in_range(parsed.v)
           THEN /\ Handled(u, "height", text, "reprompt", <<"height_out_of_range">>, 0)
                /\ UNCHANGED <<conv, user_data>>
           ELSE /\ user_data' = [user_data EXCEPT ![u] = Put(@, "height", parsed.v)]
                /\ conv' = [conv EXCEPT ![u] = height_returns]
                /\ Handled(u, "height", text, "accepted", <<"ask_activity">>, 0)
    /\ UNCHANGED user_data_store

\* int() of malformed data raises ValueError out of the handler: the
\* conversation keeps its state and nothing has been written.
activity(u, data) ==
    /\ conv[u] = ACTIVITY
    /\ LET activity_idx == int(Replace(data, "activity_"))
       IN  IF ~activity_idx.ok
           THEN /\ Handled(u, "activity", data, "raised", <<>>, 0)
                /\ UNCHANGED <<conv, user_data>>
           ELSE IF ~index_valid(activity_idx.v, activity_options)
           THEN /\ Handled(u, "activity", data, "reprompt", <<"ask_valid_activity">>, 0)
                /\ UNCHANGED <<conv, user_data>>
           ELSE /\ user_data' = [user_data EXCEPT
                                   ![u] = Put(@, "activity", activity_options[activity_idx.v + 1])]
                /\ conv' = [conv EXCEPT ![u] = activity_returns]
                /\ Handled(u, "activity", data, "accepted", <<"ask_goal">>, 0)
    /\ UNCHANGED user_data_store

\* The goal is written first; a missing key then raises KeyError out of the
\* handler, before anything is calculated or stored.
goal(u, data) ==
    /\ conv[u] = GOAL
    /\ LET goal_idx == int(Replace(data, "goal_"))
       IN  IF ~goal_idx.ok
           THEN /\ Handled(u, "goal", data, "raised", <<>>, 0)
                /\ UNCHANGED <<conv, user_data, user_data_store>>
           ELSE IF ~index_valid(goal_idx.v, goal_options)
           THEN /\ Handled(u, "goal", data, "reprompt", <<"ask_valid_goal">>, 0)
                /\ UNCHANGED <<conv, user_data, user_data_store>>
           ELSE LET withGoal == Put(user_data[u], "goal", goal_options[goal_idx.v + 1])
                IN  IF ~(GoalReads \subseteq DOMAIN withGoal)
                    THEN /\ user_data' = [user_data EXCEPT ![u] = withGoal]
                         /\ Handled(u, "goal", data, "raised", <<>>, 0)
                         /\ UNCHANGED <<conv, user_data_store>>
                    ELSE /\ user_data' = [user_data EXCEPT ![u] = goal_user_data(withGoal)]
                         /\ user_data_store' =
                                store_profile(user_data_store, u, goal_user_data(withGoal))
                         /\ conv' = [conv EXCEPT ![u] = goal_returns]
                         /\ Handled(u, "goal", data, "accepted", <<"results">>, 0)

-----------------------------------------------------------------------------
(* Menu generation *)

\* generate_weekly_menu(): the keys the prompt reads
PromptKeys ==
    {"age", "gender", "weight", "height", "activity", "goal", "calories",
     "bmr", "tdee"}

\* generate_weekly_menu() without the try / except around the request: the
\* error of the service leaves the function as an exception
generate_weekly_menu_raising(ud, outcome) ==
    IF ~client
    THEN [raised |-> FALSE, kind |-> "unavailable", truthy |-> TRUE, requests |-> 0]
    ELSE IF ~(PromptKeys \subseteq DOMAIN ud)
    THEN [raised |-> TRUE, kind |-> "KeyError", truthy |-> FALSE, requests |-> 0]
    ELSE IF outcome = "error"
    THEN [raised |-> TRUE, kind |-> "Exception", truthy |-> FALSE, requests |-> 1]
    ELSE IF outcome = "text"
    THEN [raised |-> FALSE, kind |-> "menu", truthy |-> TRUE, requests |-> 1]
    ELSE [raised |-> FALSE, kind |-> "nothing", truthy |-> FALSE, requests |-> 1]

\* generate_weekly_menu() sending the request a second time when the first
\* one failed
generate_weekly_menu_retrying(ud, outcome) ==
    IF ~client
    THEN [raised |-> FALSE, kind |-> "unavailable", truthy |-> TRUE, requests |-> 0]
    ELSE IF ~(PromptKeys \subseteq DOMAIN ud)
    THEN [raised |-> TRUE, kind |-> "KeyError", truthy |-> FALSE, requests |-> 0]
    ELSE IF outcome = "error"
    THEN [raised |-> FALSE, kind |-> "apology", truthy |-> TRUE, requests |-> 2]
    ELSE IF outcome = "text"
    THEN [raised |-> FALSE, kind |-> "menu", truthy |-> TRUE, requests |-> 1]
    ELSE [raised |-> FALSE, kind |-> "nothing", truthy |-> FALSE, requests |-> 1]

\* generate_weekly_menu(user_data) when the service answers a request with
\* `outcome`: what is returned (kind, and whether it is a non-empty string),
\* how many requests were sent, and whether building the prompt raised.
generate_weekly_menu(ud, outcome) ==
    IF ~client
    THEN [raised |-> FALSE, kind |-> "unavailable", truthy |-> TRUE, requests |-> 0]
    ELSE IF ~(PromptKeys \subseteq DOMAIN ud)
    THEN [raised |-> TRUE, kind |-> "KeyError", truthy |-> FALSE, requests |-> 0]
    ELSE IF outcome = "error"
    THEN [raised |-> FALSE, kind |-> "apology", truthy |-> TRUE, requests |-> 1]
    ELSE IF outcome = "text"
    THEN [raised |-> FALSE, kind |-> "menu", truthy |-> TRUE, requests |-> 1]
    ELSE [raised |-> FALSE, kind |-> "nothing", truthy |-> FALSE, requests |-> 1]

\* An outcome of the service is drawn only for a request that is made.
Answers(requests, outcome) == requests > 0 \/ outcome = "text"

\* ask_for_tip(): the messages it sends
ask_for_tip_sent == IF TIP_AMOUNTS THEN <<"menu_ready_tip_prompt">> ELSE <<>>

menu_confirmation(u, data, outcome) ==
    /\ conv[u] = MENU_CONFIRM
    /\ Answers(IF Replace(data, "menu_") = <<"yes">>
               THEN generate_weekly_menu(user_data[u], outcome).requests
               ELSE 0, outcome)
    /\ LET response == Replace(data, "menu_")
           weekly == generate_weekly_menu(user_data[u], outcome)
       IN  IF response = <<"yes">>
           THEN IF weekly.raised
                THEN /\ Handled(u, "menu_confirmation", data, "raised",
                                <<"generating">>, weekly.requests)
                     /\ UNCHANGED conv
                ELSE IF weekly.truthy
                THEN \* return await ask_for_tip(...): TIP_AMOUNT, or None
                     \* (the state is kept) when tipping is not configured
                     /\ conv' = [conv EXCEPT
                                   ![u] = IF TIP_AMOUNTS THEN TIP_AMOUNT ELSE @]
                     /\ Handled(u, "menu_confirmation", data, "menu_sent",
                                <<"generating", weekly.kind>> \o ask_for_tip_sent,
                                weekly.requests)
                ELSE /\ conv' = [conv EXCEPT ![u] = END]
                     /\ Handled(u, "menu_confirmation", data, "menu_failed",
                                <<"generating", "apology_try_later", "navigation_options">>,
                                weekly.requests)
           ELSE IF response = <<"no">>
           THEN /\ conv' = [conv EXCEPT ![u] = GENDER]
                /\ Handled(u, "menu_confirmation", data, "update", <<"ask_gender">>, 0)
           ELSE /\ Handled(u, "menu_confirmation", data, "reprompt",
                           <<"select_an_option">>, 0)
                /\ UNCHANGED conv
    /\ UNCHANGED <<user_data, user_data_store>>

\* The handlers that call generate_weekly_menu()
MenuHandlers == {"menu_confirmation", "weekly_menu", "handle_navigation"}

\* Handler h of user u runs up to client.chat.completions.create(...) and is
\* now waiting for it to return.  /weekly_menu and the generate_menu choice
\* have copied the stored profile into context.user_data before.
chat_completions_create(u, h) ==
    /\ call = NoCall
    /\ update_id < UpdateLimit(u)
    /\ LET ud == IF h = "menu_confirmation"
                 THEN user_data[u]
                 ELSE use_stored_data(user_data[u], user_data_store, u)
       IN  /\ CASE h = "menu_confirmation" -> conv[u] = MENU_CONFIRM
                [] h = "weekly_menu" -> has_calories_key(user_data_store, u)
                [] h = "handle_navigation" ->
                       /\ conv[u] \notin CallbackStates
                       /\ has_previous_data(user_data_store, u)
           /\ generate_weekly_menu(ud, "text").requests = 1
           /\ user_data' = [user_data EXCEPT ![u] = ud]
    /\ call' = [user |-> u, handler |-> h]
    /\ UNCHANGED <<conv, user_data_store, client, update_id, last, menu_text, parts>>

\* cancel() reachable only from the states that take text messages
cancel_in_text_states(u) ==
    /\ conv[u] \in TextStates
    /\ conv' = [conv EXCEPT ![u] = END]
    /\ Handled(u, "cancel", <<"/cancel">>, "cancelled", <<"bye">>, 0)
    /\ UNCHANGED <<user_data, user_data_store>>

\* cancel(): the fallback, tried in every state of a running conversation
cancel(u) ==
    /\ conv[u] # END
    /\ conv' = [conv EXCEPT ![u] = END]
    /\ Handled(u, "cancel", <<"/cancel">>, "cancelled", <<"bye">>, 0)
    /\ UNCHANGED <<user_data, user_data_store>>

-----------------------------------------------------------------------------
(* Tipping *)

handle_tip_amount(u, data) ==
    /\ conv[u] = TIP_AMOUNT
    /\ LET tip_data == Replace(data, "tip_")
       IN  IF ~TIP_AMOUNTS
           THEN /\ conv' = [conv EXCEPT ![u] = END]
                /\ Handled(u, "handle_tip_amount", data, "done",
                           <<"thank_you", "navigation_options">>, 0)
           ELSE IF tip_data = <<"custom">>
           THEN /\ conv' = [conv EXCEPT ![u] = TIP_CONFIRM]
                /\ Handled(u, "handle_tip_amount", data, "custom",
                           <<"ask_custom_amount">>, 0)
           ELSE /\ conv' = [conv EXCEPT ![u] = END]
                /\ Handled(u, "handle_tip_amount", data, "done",
                           <<"thank_you", "navigation_options">>, 0)
    /\ UNCHANGED <<user_data, user_data_store>>

handle_custom_tip(u, text) ==
    /\ conv[u] = TIP_CONFIRM
    /\ LET parsed == float(text)
       IN  IF ~TIP_AMOUNTS
           THEN /\ conv' = [conv EXCEPT ![u] = END]
                /\ Handled(u, "handle_custom_tip", text, "done", <<"thank_you">>, 0)
           ELSE IF ~parsed.ok
           THEN /\ Handled(u, "handle_custom_tip", text, "reprompt",
                           <<"tip_not_a_number">>, 0)
                /\ UNCHANGED conv
           ELSE IF FLess(parsed.v, 10)
           THEN /\ Handled(u, "handle_custom_tip", text, "reprompt",
                           <<"tip_below_minimum">>, 0)
                /\ UNCHANGED conv
           ELSE /\ conv' = [conv EXCEPT ![u] = END]
                /\ Handled(u, "handle_custom_tip", text, "done",
                           <<"payment_link", "navigation_options">>, 0)
    /\ UNCHANGED <<user_data, user_data_store>>

-----------------------------------------------------------------------------
(* Commands outside the conversation *)

\* generate_diet() looking for the calories in context.user_data instead of
\* the store
generate_diet_from_draft(u) ==
    /\ IF ~Has(user_data[u], "calories")
       THEN Handled(u, "generate_diet", <<"/diet">>, "no_profile",
                    <<"provide_body_data_first">>, 0)
       ELSE HandledWith(u, "generate_diet", <<"/diet">>, "plan", <<"diet_plan">>, 0,
                        <<diet_plan(user_data[u]["calories"], user_data[u]["goal"])>>)
    /\ UNCHANGED <<conv, user_data, user_data_store>>

\* /diet.  The MENU_CONFIRM it returns is dropped: the handler is not part of
\* the conversation.
generate_diet(u) ==
    /\ IF ~has_calories_key(user_data_store, u)
       THEN /\ Handled(u, "generate_diet", <<"/diet">>, "no_profile",
                       <<"provide_body_data_first">>, 0)
            /\ UNCHANGED user_data
       ELSE LET ud == use_stored_data(user_data[u], user_data_store, u)
            IN  /\ user_data' = [user_data EXCEPT ![u] = ud]
                /\ HandledWith(u, "generate_diet", <<"/diet">>, "plan",
                               <<"diet_plan">>, 0,
                               <<diet_plan(ud["calories"], ud["goal"])>>)
    /\ UNCHANGED <<conv, user_data_store>>

\* /weekly_menu
weekly_menu(u, outcome) ==
    /\ Answers(IF has_calories_key(user_data_store, u)
               THEN generate_weekly_menu(
                        use_stored_data(user_data[u], user_data_store, u),
                        outcome).requests
               ELSE 0, outcome)
    /\ IF ~has_calories_key(user_data_store, u)
       THEN /\ Handled(u, "weekly_menu", <<"/weekly_menu">>, "no_profile",
                       <<"provide_body_data_first">>, 0)
            /\ UNCHANGED user_data
       ELSE LET ud == use_stored_data(user_data[u], user_data_store, u)
                weekly == generate_weekly_menu(ud, outcome)
            IN  /\ user_data' = [user_data EXCEPT ![u] = ud]
                /\ IF weekly.raised
                   THEN Handled(u, "weekly_menu", <<"/weekly_menu">>, "raised",
                                <<"generating">>, weekly.requests)
                   ELSE IF weekly.truthy
                   THEN Handled(u, "weekly_menu", <<"/weekly_menu">>, "menu_sent",
                                <<"generating", weekly.kind, "what_next">>,
                                weekly.requests)
                   ELSE Handled(u, "weekly_menu", <<"/weekly_menu">>, "menu_failed",
                                <<"generating", "apology_try_later">>, weekly.requests)
    /\ UNCHANGED <<conv, user_data_store>>

\* /clear_data
clear_data(u) ==
    /\ IF u \in DOMAIN user_data_store
       THEN /\ user_data_store' = delete_profile(user_data_store, u)
            /\ Handled(u, "clear_data", <<"/clear_data">>, "cleared",
                       <<"data_cleared">>, 0)
       ELSE /\ Handled(u, "clear_data", <<"/clear_data">>, "nothing",
                       <<"no_stored_data">>, 0)
            /\ UNCHANGED user_data_store
    /\ UNCHANGED <<conv, user_data>>

\* /stats, /broadcast, /userinfo, /admin_help: they only read the store
admin_command(u, cmd) ==
    /\ IF is_admin(u)
       THEN Handled(u, "admin_command", cmd, "done", <<"admin_reply">>, 0)
       ELSE Handled(u, "admin_command", cmd, "refused", <<"admins_only">>, 0)
    /\ UNCHANGED <<conv, user_data, user_data_store>>

\* handle_navigation(): callback queries that match its pattern and that the
\* conversation did not take.  Whatever it returns is dropped.
handle_navigation(u, data, outcome) ==
    /\ conv[u] \notin CallbackStates
    /\ data \in NavChoices
    /\ Answers(IF data = <<"generate_menu">> /\ has_previous_data(user_data_store, u)
               THEN generate_weekly_menu(
                        use_stored_data(user_data[u], user_data_store, u),
                        outcome).requests
               ELSE 0, outcome)
    /\ LET has_data == has_previous_data(user_data_store, u)
       IN  CASE data = <<"generate_menu">> ->
                 IF ~has_data
                 THEN /\ Handled(u, "handle_navigation", data, "no_profile",
                                 <<"provide_body_data_first", "main_menu">>, 0)
                      /\ UNCHANGED <<user_data, user_data_store>>
                 ELSE LET ud == use_stored_data(user_data[u], user_data_store, u)
                          weekly == generate_weekly_menu(ud, outcome)
                      IN  /\ user_data' = [user_data EXCEPT ![u] = ud]
                          /\ UNCHANGED user_data_store
                          /\ IF weekly.raised
                             THEN Handled(u, "handle_navigation", data, "raised",
                                          <<"generating">>, weekly.requests)
                             ELSE IF weekly.truthy
                             THEN Handled(u, "handle_navigation", data, "menu_sent",
                                          <<"generating", weekly.kind>> \o ask_for_tip_sent,
                                          weekly.requests)
                             ELSE Handled(u, "handle_navigation", data, "menu_failed",
                                          <<"generating", "apology_try_later", "main_menu">>,
                                          weekly.requests)
             [] data \in {<<"enter_body_data">>, <<"update_info">>} ->
                 \* start() is called on the bot's own message: the user id it
                 \* looks up is the bot's, which has no stored profile
                 /\ Handled(u, "handle_navigation", data, "start",
                            <<"collect_body_data", "welcome", "ask_gender">>, 0)
                 /\ UNCHANGED <<user_data, user_data_store>>
             [] data = <<"view_stats">> ->
                 /\ IF ~is_admin(u)
                    THEN Handled(u, "handle_navigation", data, "refused",
                                 <<"admins_only", "main_menu">>, 0)
                    ELSE IF u \notin DOMAIN user_data_store
                    THEN Handled(u, "handle_navigation", data, "stats",
                                 <<"no_data_found", "main_menu">>, 0)
                    ELSE Handled(u, "handle_navigation", data, "stats",
                                 <<"stats", "main_menu">>, 0)
                 /\ UNCHANGED <<user_data, user_data_store>>
             [] data = <<"clear_data">> ->
                 /\ IF u \in DOMAIN user_data_store
                    THEN /\ user_data_store' = delete_profile(user_data_store, u)
                         /\ Handled(u, "handle_navigation", data, "cleared",
                                    <<"data_cleared", "main_menu">>, 0)
                    ELSE /\ Handled(u, "handle_navigation", data, "nothing",
                                    <<"no_data_to_clear", "main_menu">>, 0)
                         /\ UNCHANGED user_data_store
                 /\ UNCHANGED user_data
             [] data = <<"main_menu">> ->
                 /\ Handled(u, "handle_navigation", data, "done",
                            <<"returning", "main_menu">>, 0)
                 /\ UNCHANGED <<user_data, user_data_store>>
    /\ UNCHANGED conv

\* Updates no handler takes: /start inside a conversation, /cancel outside
\* one, a text where no text is expected, a callback query that neither the
\* conversation nor the navigation handler matches.  The text is recorded
\* when it is the label of a button of the state the conversation is in.
Unhandled(u, inp) ==
    \/ inp = <<"/start">> /\ conv[u] # END
    \/ inp = <<"/cancel">> /\ conv[u] = END
    \/ inp \in TextInputs \cup ChoiceTexts /\ conv[u] \notin TextStates
    \/ inp \in CallbackInputs /\ conv[u] \notin CallbackStates /\ inp \notin NavChoices

no_handler(u) ==
    /\ {inp \in {<<"/start">>, <<"/cancel">>} \cup TextInputs \cup CallbackInputs :
           Unhandled(u, inp)} # {}
    /\ \/ Handled(u, "none", <<>>, "dropped", <<>>, 0)
       \/ \E inp \in ChoiceTexts :
              /\ conv[u] = ChoiceState(inp)
              /\ Unhandled(u, inp)
              /\ Handled(u, "none", inp, "dropped", <<>>, 0)
    /\ UNCHANGED <<conv, user_data, user_data_store>>

-----------------------------------------------------------------------------
(* Specification *)

\* The updates of user u that a handler takes, and the ones none takes
Handles(u) ==
    \/ start(u)
    \/ \E data \in CallbackInputs : gender(u, data)
    \/ \E text \in TextInputs : age(u, text)
    \/ \E text \in TextInputs : weight(u, text)
    \/ \E text \in TextInputs : height(u, text)
    \/ \E data \in CallbackInputs : activity(u, data)
    \/ \E data \in CallbackInputs : goal(u, data)
    \/ \E data \in CallbackInputs, outcome \in CollabOutcomes :
           menu_confirmation(u, data, outcome)
    \/ \E h \in MenuHandlers : chat_completions_create(u, h)
    \/ cancel(u)
    \/ \E data \in CallbackInputs : handle_tip_amount(u, data)
    \/ \E text \in TextInputs : handle_custom_tip(u, text)
    \/ generate_diet(u)
    \/ \E outcome \in CollabOutcomes : weekly_menu(u, outcome)
    \/ clear_data(u)
    \/ \E cmd \in AdminCommands : admin_command(u, cmd)
    \/ \E data \in CallbackInputs, outcome \in CollabOutcomes :
           handle_navigation(u, data, outcome)
    \/ no_handler(u)

Next == \E u \in Users : Handles(u)

Spec == Init /\ [][Next]_vars

-----------------------------------------------------------------------------
(* The intake of one user, with the answers that probe each validator and   *)
(* every option of the calculation                                          *)

AgeTexts ==
    {<<"0">>, <<"1">>, <<"3", "0">>, <<"1", "2", "0">>, <<"1", "2", "1">>,
     <<"-", "1">>, <<"3", "0", ".", "5">>, <<"n", "a", "n">>, <<"a", "b", "c">>,
     <<" ", "3", "0", " ">>, <<>>}

WeightTexts ==
    {<<"0", ".", "9">>, <<"1">>, <<"7", "0">>, <<"3", "0", "0">>,
     <<"3", "0", "0", ".", "1">>, <<"n", "a", "n">>, <<"i", "n", "f">>,
     <<"a", "b", "c">>}

HeightTexts ==
    {<<"2", "9", ".", "9">>, <<"3", "0">>, <<"1", "7", "5">>, <<"2", "5", "0">>,
     <<"2", "5", "0", ".", "1">>, <<"N", "a", "N">>, <<"-", "i", "n", "f">>,
     <<"a", "b", "c">>}

IntakeCallbacks ==
    {<<"gender_", "male">>, <<"gender_", "female">>, <<"gender_", "other">>,
     <<"activity_", "0">>, <<"activity_", "1">>, <<"activity_", "2">>,
     <<"activity_", "3">>, <<"activity_", "4">>, <<"activity_", "5">>,
     <<"goal_", "0">>, <<"goal_", "1">>, <<"goal_", "2">>, <<"goal_", "3">>,
     <<"goal_", "-", "1">>}

NextIntake ==
    \/ start(1)
    \/ \E data \in IntakeCallbacks : gender(1, data)
    \/ \E text \in AgeTexts : age(1, text)
    \/ \E text \in WeightTexts : weight(1, text)
    \/ \E text \in HeightTexts : height(1, text)
    \/ \E data \in IntakeCallbacks : activity(1, data)
    \/ \E data \in IntakeCallbacks : goal(1, data)

SpecIntake == Init /\ [][NextIntake]_vars

-----------------------------------------------------------------------------
(* Runs that begin when user 1 has completed the intake                     *)

\* The profile goal() stores for the answers Male, "30", "30", "30",
\* Medium activity, Lose weight
PositiveTargetProfile ==
    goal_user_data([gender |-> "Male", age |-> 30, weight |-> Num(300),
                    height |-> Num(300), activity |-> "Medium activity",
                    goal |-> "Lose weight"])

\* The profile goal() stores for the answers Male, "1",
\* "22.916666666666668", "30", No activity, Lose weight, which pass the three
\* validators.  In the double arithmetic of the interpreter
\*     bmr      = 10 * weight + 6.25 * 30.0 - 5 * 1 + 5 = 416.6666666666667
\*     tdee     = bmr * 1.2                             = 500.0
\*     calories = tdee - 500                            = 0.0
\* The weight and the BMR are written to the nearest unit of this module (a
\* tenth of a kilogram, a thousandth of a kilocalorie); the TDEE and the
\* calorie target are the interpreter's values.
ZeroTargetProfile ==
    [gender |-> "Male", age |-> 1, weight |-> Num(229), height |-> Num(300),
     activity |-> "No activity", goal |-> "Lose weight",
     bmr |-> Num(416667), tdee |-> Num(500 * 40000), calories |-> Num(0)]

StoredProfiles == {PositiveTargetProfile, ZeroTargetProfile}

\* The state goal() leaves when it has stored the profile of user 1
InitStored ==
    \E profile \in StoredProfiles :
        /\ conv = [u \in Users |-> IF u = 1 THEN goal_returns ELSE END]
        /\ user_data = [u \in Users |-> IF u = 1 THEN profile ELSE EmptyDict]
        /\ user_data_store = store_profile(EmptyDict, 1, profile)
        /\ client \in BOOLEAN
        /\ update_id = 0
        /\ last = [user |-> 1, handler |-> "goal", input |-> <<"goal_", "0">>,
                   result |-> "accepted", sent |-> <<"results">>,
                   requests |-> 0, plan |-> <<>>, stored_before |-> <<>>]
        /\ call = NoCall
        /\ menu_text = <<>>
        /\ parts = <<>>

SpecStored == InitStored /\ [][Next]_vars

\* The same, for the profile whose values the handlers of this module
\* compute again from its six answers
InitRerun == InitStored /\ user_data_store[1] = PositiveTargetProfile

\* The updates of user 1 alone
NextRerun == Handles(1)

SpecRerun == InitRerun /\ [][NextRerun]_vars

-----------------------------------------------------------------------------
(* The messages a menu is sent as *)

Min(a, b) == IF a < b THEN a ELSE b

\* The slices taken one character too long: weekly_menu[i:i+4001]
split_into_parts_overlapping(text) ==
    IF Len(text) > 4000
    THEN [j \in 1..((Len(text) + 3999) \div 4000) |->
             SubSeq(text, 4000 * (j - 1) + 1,
                    Min(4000 * (j - 1) + 4001, Len(text)))]
    ELSE <<text>>

\* menu_confirmation(), weekly_menu(), handle_navigation(): the texts sent
\* for a menu that is not empty,
\*     parts = [weekly_menu[i:i+4000] for i in range(0, len(weekly_menu), 4000)]
\* when it is longer than 4000 characters and the menu itself when it is not
split_into_parts(text) ==
    IF Len(text) > 4000
    THEN [j \in 1..((Len(text) + 3999) \div 4000) |->
             SubSeq(text, 4000 * (j - 1) + 1,
                    Min(4000 * j, Len(text)))]
    ELSE <<text>>

\* The apology the callers send in place of an empty menu
apology_try_later == <<"apology_try_later">>

\* The `if weekly_menu:` statement of the three callers
reply_in_parts ==
    /\ parts = <<>>
    /\ parts' = IF menu_text # <<>>
                THEN split_into_parts(menu_text)
                ELSE <<apology_try_later>>
    /\ UNCHANGED <<conv, user_data, user_data_store, client, update_id, last,
                   call, menu_text>>

\* Characters of a menu
MenuChars == <<"a", "b", " ", "-", "1">>

\* The text of n characters that begins at the c-th of MenuChars
TextOfLength(n, c) == [i \in 1..n |-> MenuChars[((i + c) % Len(MenuChars)) + 1]]

\* Lengths around the multiples of 4000, and the 9000 of the example
MenuLengths ==
    {0, 1, 2, 3999, 4000, 4001, 7999, 8000, 8001, 9000, 11999, 12000, 12001}

GeneratedTexts ==
    {TextOfLength(n, c) : n \in MenuLengths, c \in 0..(Len(MenuChars) - 1)}

InitChunking ==
    /\ conv = [u \in Users |-> END]
    /\ user_data = [u \in Users |-> EmptyDict]
    /\ user_data_store = EmptyDict
    /\ client = TRUE
    /\ update_id = 0
    /\ last = NoUpdate
    /\ call = NoCall
    /\ menu_text \in GeneratedTexts
    /\ parts = <<>>

NextChunking == reply_in_parts

-----------------------------------------------------------------------------
(* format_menu_as_plain_text()                                              *)
(* A text is a sequence of tokens: the characters "#", "*", "-", "_", " ",  *)
(* "\n" and "a" (any other character), a day or meal name as one token, and *)
(* each of the two emojis as one token.                                     *)

\* \s
Whitespace == {" ", "\n"}

Days == {"Monday", "monday"}

Meals == {"Lunch", "lunch"}

Calendar == "calendar emoji"

Plate == "plate emoji"

Drop(s, n) == SubSeq(s, n + 1, Len(s))

StartsWith(s, d) == Len(s) >= Len(d) /\ SubSeq(s, 1, Len(d)) = d

\* The number of leading tokens of s that are in set
RECURSIVE RunLength(_, _)
RunLength(s, set) ==
    IF s # <<>> /\ Head(s) \in set THEN 1 + RunLength(Tail(s), set) ELSE 0

\* re.sub(r'#+\s*', '', s)
RECURSIVE remove_headers(_)
remove_headers(s) ==
    IF s = <<>> THEN <<>>
    ELSE IF Head(s) = "#"
    THEN LET afterHashes == Drop(s, RunLength(s, {"#"}))
         IN  remove_headers(Drop(afterHashes, RunLength(afterHashes, Whitespace)))
    ELSE <<Head(s)>> \o remove_headers(Tail(s))

\* re.sub(r'[*\-]\s+', '- ', s)
RECURSIVE bullets_to_dashes(_)
bullets_to_dashes(s) ==
    IF s = <<>> THEN <<>>
    ELSE IF Head(s) \in {"*", "-"} /\ RunLength(Tail(s), Whitespace) > 0
    THEN <<"-", " ">>
             \o bullets_to_dashes(Drop(Tail(s), RunLength(Tail(s), Whitespace)))
    ELSE <<Head(s)>> \o bullets_to_dashes(Tail(s))

\* Where the lazy (.*?) of a pattern d(.*?)d ends in rest, the text after
\* the opening d: the least k such that d follows the first k tokens and
\* none of them is a newline; -1 when there is none
GroupLength(rest, d) ==
    LET ends == {k \in 0..Len(rest) :
                    /\ StartsWith(Drop(rest, k), d)
                    /\ \A i \in 1..k : rest[i] # "\n"}
    IN  IF ends = {} THEN -1 ELSE CHOOSE k \in ends : \A m \in ends : k <= m

\* re.sub(d + r'(.*?)' + d, r'\1', s) for a delimiter d
RECURSIVE unwrap(_, _)
unwrap(s, d) ==
    IF s = <<>> THEN <<>>
    ELSE IF StartsWith(s, d) /\ GroupLength(Drop(s, Len(d)), d) >= 0
    THEN LET rest == Drop(s, Len(d))
             k == GroupLength(rest, d)
         IN  SubSeq(rest, 1, k) \o unwrap(Drop(rest, k + Len(d)), d)
    ELSE <<Head(s)>> \o unwrap(Tail(s), d)

\* The greatest j such that the first j tokens of s are whitespace and the
\* j-th is a newline; 0 when there is none
LastNewlineOfRun(s) ==
    LET js == {j \in 1..RunLength(s, Whitespace) : s[j] = "\n"}
    IN  IF js = {} THEN 0 ELSE CHOOSE j \in js : \A m \in js : m <= j

\* re.sub(r'\n\s*\n', '\n\n', s)
RECURSIVE blank_lines(_)
blank_lines(s) ==
    IF s = <<>> THEN <<>>
    ELSE IF Head(s) = "\n" /\ LastNewlineOfRun(Tail(s)) > 0
    THEN <<"\n", "\n">> \o blank_lines(Drop(Tail(s), LastNewlineOfRun(Tail(s))))
    ELSE <<Head(s)>> \o blank_lines(Tail(s))

\* re.sub(r'(name|...)', emoji + r' \1', s, flags=re.IGNORECASE)
RECURSIVE add_emoji(_, _, _)
add_emoji(s, names, emoji) ==
    IF s = <<>> THEN <<>>
    ELSE IF Head(s) \in names
    THEN <<emoji, " ", Head(s)>> \o add_emoji(Tail(s), names, emoji)
    ELSE <<Head(s)>> \o add_emoji(Tail(s), names, emoji)

format_menu_as_plain_text(menu) ==
    IF menu = <<>> THEN menu
    ELSE LET headers == remove_headers(menu)
             bullets == bullets_to_dashes(headers)
             bold == unwrap(bullets, <<"*", "*">>)
             italic == unwrap(bold, <<"*">>)
             underscores == unwrap(italic, <<"_">>)
             breaks == blank_lines(underscores)
             days == add_emoji(breaks, Days, Calendar)
         IN  add_emoji(days, Meals, Plate)

\* generate_weekly_menu() from the answer of the service on, and the caller
\* sending what it returns
return_formatted ==
    /\ parts = <<>>
    /\ LET weekly == format_menu_as_plain_text(menu_text)
       IN  parts' = IF weekly # <<>>
                    THEN split_into_parts(weekly)
                    ELSE <<apology_try_later>>
    /\ UNCHANGED <<conv, user_data, user_data_store, client, update_id, last,
                   call, menu_text>>

TextTokens == {"#", "*", "-", "_", " ", "\n", "a", "Monday", "lunch"}

TextsOfLength(n) == [1..n -> TextTokens]

\* The answers of the service
ResponseTexts == UNION {TextsOfLength(n) : n \in 0..MaxTextLen}

InitFormatting ==
    /\ conv = [u \in Users |-> END]
    /\ user_data = [u \in Users |-> EmptyDict]
    /\ user_data_store = EmptyDict
    /\ client = TRUE
    /\ update_id = 0
    /\ last = NoUpdate
    /\ call = NoCall
    /\ menu_text \in ResponseTexts
    /\ parts = <<>>

NextFormatting == return_formatted

SpecFormatting == InitFormatting /\ [][NextFormatting]_vars

SpecChunking == InitChunking /\ [][NextChunking]_vars

-----------------------------------------------------------------------------
(* Vocabulary of the properties *)

\* The intake sequence; the results are shown, and the profile is stored, on
\* entering MENU_CONFIRM from GOAL ("Complete").
IntakeOrder == <<GENDER, AGE, WEIGHT, HEIGHT, ACTIVITY, GOAL, MENU_CONFIRM>>

IntakeStates == {IntakeOrder[i] : i \in 1..6}

Successor(S) == IntakeOrder[(CHOOSE i \in 1..6 : IntakeOrder[i] = S) + 1]

StepOf(S) ==
    CASE S = GENDER -> "gender" [] S = AGE -> "age" [] S = WEIGHT -> "weight"
      [] S = HEIGHT -> "height" [] S = ACTIVITY -> "activity" [] S = GOAL -> "goal"

\* The store entry of u as a sequence: empty when u has none
StoredEntry(store, u) == IF u \in DOMAIN store THEN <<store[u]>> ELSE <<>>

\* The last update was handled by handler h on behalf of u
Did(u, h) == last.user = u /\ last.handler = h

InClosedInterval(x, lo, hi) == x.k = "num" /\ lo <= x.v /\ x.v <= hi

ProfileKeys ==
    {"gender", "age", "weight", "height", "activity", "goal", "bmr", "tdee",
     "calories"}

ResultKeys == {"bmr", "tdee", "calories"}

\* The six inputs of a profile are valid ones
ValidInputs(p) ==
    /\ p["gender"] \in {"Male", "Female"}
    /\ p["age"] \in 1..120
    /\ InClosedInterval(p["weight"], 10, 3000)
    /\ InClosedInterval(p["height"], 300, 2500)
    /\ p["activity"] \in {"No activity", "Minimal activity", "Medium activity",
                          "Above average activity", "High activity"}
    /\ p["goal"] \in {"Lose weight", "Maintain weight", "Gain weight"}

\* Input inp fails the validation of state S: it is not a number, it is
\* outside the closed interval of the state, or it is not one of the options
\* (by the stated bounds or by the handler's own test).
Rejects(S, inp) ==
    CASE S = GENDER -> ~gender_valid(Replace(inp, "gender_"))
      [] S = AGE -> ~int(inp).ok \/ ~age_in_range(int(inp).v)
      [] S = WEIGHT -> \/ ~float(inp).ok
                       \/ ~weight_in_range(float(inp).v)
                       \/ ~InClosedInterval(float(inp).v, 10, 3000)
      [] S = HEIGHT -> \/ ~float(inp).ok
                       \/ ~height_in_range(float(inp).v)
                       \/ ~InClosedInterval(float(inp).v, 300, 2500)
      [] S = ACTIVITY -> \/ ~int(Replace(inp, "activity_")).ok
                         \/ ~index_valid(int(Replace(inp, "activity_")).v, activity_options)
      [] S = GOAL -> \/ ~int(Replace(inp, "goal_")).ok
                     \/ ~index_valid(int(Replace(inp, "goal_")).v, goal_options)

-----------------------------------------------------------------------------
(* C1 *)

C1_Step(u) ==
    /\ (conv[u] \in IntakeStates /\ conv'[u] # conv[u]) =>
          \/ /\ conv'[u] = Successor(conv[u])
             /\ last'.user = u
             /\ last'.handler = StepOf(conv[u])
             /\ last'.result = "accepted"
          \/ conv'[u] = END /\ last'.user = u /\ last'.handler = "cancel"
    /\ (update_id' # update_id /\ last'.user = u /\ last'.result = "accepted") =>
          /\ conv[u] \in IntakeStates
          /\ last'.handler = StepOf(conv[u])
          /\ conv'[u] = Successor(conv[u])
    /\ (conv[u] \notin IntakeStates /\ conv'[u] \in IntakeStates) => conv'[u] = GENDER
    /\ (/\ StoredEntry(user_data_store', u) # StoredEntry(user_data_store, u)
        /\ u \in DOMAIN user_data_store') =>
          /\ conv[u] = GOAL
          /\ conv'[u] = MENU_CONFIRM
          /\ last'.user = u /\ last'.handler = "goal" /\ last'.result = "accepted"
          /\ DOMAIN user_data_store'[u] = ProfileKeys

\* C1: a session in an intake state leaves it only for the next state of
\* Gender -> Age -> Weight -> Height -> ActivityLevel -> Goal -> Complete, and
\* only by an accepted input of that state's handler (or for the end, by
\* cancel); every accepted input advances exactly one state; the intake is
\* entered only at Gender; a profile is calculated and stored only by the
\* step from Goal to Complete.
C1_IntakeIsLinear == [][\A u \in Users : C1_Step(u)]_vars

\* A user has gone through the six steps and the profile is stored.
C1_Witness ==
    \E u \in Users :
        /\ Did(u, "goal") /\ last.result = "accepted"
        /\ conv[u] = MENU_CONFIRM
        /\ u \in DOMAIN user_data_store

-----------------------------------------------------------------------------
(* C2 *)

C2_Step(u) ==
    (/\ update_id' # update_id
     /\ last'.user = u
     /\ conv[u] \in IntakeStates
     /\ last'.handler = StepOf(conv[u])
     /\ Rejects(conv[u], last'.input)) =>
        /\ conv' = conv
        /\ user_data' = user_data
        /\ user_data_store' = user_data_store

\* C2: in each of the six intake states, an input that fails the state's
\* validation (out of range, not a number, not one of the options) leaves the
\* session in that state and changes no field of the draft (nor anything
\* else of any session or of the store).
C2_RejectedInputIsNoOp == [][\A u \in Users : C2_Step(u)]_vars

-----------------------------------------------------------------------------
(* C3 *)

\* C3: the Age step accepts an input exactly when it is an integer in
\* [1,120], the Weight step exactly when it is a number in [1,300], the
\* Height step exactly when it is a number in [30,250].
C3_ValidatorsAcceptExactlyTheIntervals ==
    /\ last.handler = "age" =>
          (last.result = "accepted" <=>
              (int(last.input).ok /\ int(last.input).v \in 1..120))
    /\ last.handler = "weight" =>
          (last.result = "accepted" <=>
              (float(last.input).ok /\ InClosedInterval(float(last.input).v, 10, 3000)))
    /\ last.handler = "height" =>
          (last.result = "accepted" <=>
              (float(last.input).ok /\ InClosedInterval(float(last.input).v, 300, 2500)))

-----------------------------------------------------------------------------
(* C4 *)

\* C4: every entry of the store holds the six input fields with valid values
\* and the bmr, tdee and calories calculated from those six fields.
C4_StoredProfilesAreComplete ==
    \A u \in DOMAIN user_data_store :
        LET p == user_data_store[u]
        IN  /\ DOMAIN p = ProfileKeys
            /\ ValidInputs(p)
            /\ p["bmr"] = BMR(p["gender"], p["weight"], p["height"], p["age"])
            /\ p["tdee"] = TDEE(p["bmr"], p["activity"])
            /\ p["calories"] = CALORIES(p["tdee"], p["goal"])

-----------------------------------------------------------------------------
(* C5 *)

C5_Step(u) ==
    StoredEntry(user_data_store', u) # StoredEntry(user_data_store, u) =>
        /\ last'.user = u
        /\ \/ /\ last'.handler = "goal" /\ last'.result = "accepted"
              /\ conv[u] = GOAL
              /\ StoredEntry(user_data_store', u) = <<user_data'[u]>>
           \/ /\ last'.handler \in {"clear_data", "handle_navigation"}
              /\ last'.result = "cleared"
              /\ u \notin DOMAIN user_data_store'

\* C5: the store entry of a user changes only when that user's Goal step
\* succeeds (it becomes the profile just calculated) or that user clears the
\* data (it is deleted); no other operation, and no operation of another
\* user, changes it.
C5_StoreChangesOnlyByGoalOrClear == [][\A u \in Users : C5_Step(u)]_vars

\* A user's Goal step has written the entry, the user has gone back into the
\* intake and answered its first question (the entry stayed), and the user
\* has now cleared the data: the entry is gone.
C5_Witness ==
    \E u \in Users :
        /\ Did(u, "clear_data") /\ last.result = "cleared"
        /\ u \notin DOMAIN user_data_store
        /\ DOMAIN user_data[u] = ProfileKeys
        /\ conv[u] = AGE

-----------------------------------------------------------------------------
(* C6 *)

-----------------------------------------------------------------------------
(* C7 *)

\* C7: after a cancel the session's draft holds none of the values entered.
C7_CancelDiscardsDraft ==
    \A u \in Users : Did(u, "cancel") => user_data[u] = EmptyDict

-----------------------------------------------------------------------------
(* C8 *)

\* C8: while a session is in one of the six intake states its draft holds no
\* bmr, tdee or calories, and the draft is empty when the session has just
\* re-entered Gender to update stored information.
C8_NoResultsInDraftDuringIntake ==
    \A u \in Users :
        /\ conv[u] \in IntakeStates => DOMAIN user_data[u] \cap ResultKeys = {}
        /\ (Did(u, "menu_confirmation") /\ last.result = "update") =>
              user_data[u] = EmptyDict

-----------------------------------------------------------------------------
(* C9 *)

\* C9: for every stored profile with valid inputs, bmr is
\* 10*weight + 6.25*height - 5*age + 5 for Male and
\* 10*weight + 6.25*height - 5*age - 161 for Female (bmr in 1/1000 kcal,
\* weight and height in 1/10); age 30, weight 70, height 175 give 1648.75 and
\* 1482.75.
C9_BmrFormula ==
    \A u \in DOMAIN user_data_store :
        LET p == user_data_store[u]
            base == 1000 * p["weight"].v + 625 * p["height"].v - 5000 * p["age"]
        IN  ValidInputs(p) =>
              /\ p["gender"] = "Male" => p["bmr"] = Num(base + 5000)
              /\ p["gender"] = "Female" => p["bmr"] = Num(base - 161000)
              /\ (p["age"] = 30 /\ p["weight"] = Num(700) /\ p["height"] = Num(1750)) =>
                    p["bmr"] = Num(IF p["gender"] = "Male" THEN 1648750 ELSE 1482750)

\* The profile of the example is in the store, with bmr 1648.75.
C9_Witness ==
    \E u \in DOMAIN user_data_store :
        LET p == user_data_store[u]
        IN  /\ p["gender"] = "Male" /\ p["age"] = 30
            /\ p["weight"] = Num(700) /\ p["height"] = Num(1750)
            /\ p["bmr"] = Num(1648750)

-----------------------------------------------------------------------------
(* C10 *)

\* The multipliers of the five levels, in 1/1000
StatedMultiplier(a) ==
    CASE a = "No activity" -> 1200
      [] a = "Minimal activity" -> 1375
      [] a = "Medium activity" -> 1550
      [] a = "Above average activity" -> 1725
      [] a = "High activity" -> 1900

\* C10: for every stored profile with valid inputs, tdee is bmr times the
\* multiplier of the activity level, the multipliers being 1.2, 1.375, 1.55,
\* 1.725 and 1.9 (tdee in 1/40000 kcal is bmr in 1/1000 kcal, divided by 25,
\* times the multiplier in 1/1000); bmr 1648.75 with Medium activity gives
\* 2555.5625.
C10_TdeeIsBmrTimesMultiplier ==
    \A u \in DOMAIN user_data_store :
        LET p == user_data_store[u]
        IN  ValidInputs(p) =>
              /\ p["bmr"].k = "num" /\ p["bmr"].v % 25 = 0
              /\ p["tdee"] = Num((p["bmr"].v \div 25) * StatedMultiplier(p["activity"]))
              /\ (p["bmr"] = Num(1648750) /\ p["activity"] = "Medium activity") =>
                    p["tdee"] = Num(102222500)

\* The profile of the example is in the store, with tdee 2555.5625.
C10_Witness ==
    \E u \in DOMAIN user_data_store :
        LET p == user_data_store[u]
        IN  /\ p["bmr"] = Num(1648750)
            /\ p["activity"] = "Medium activity"
            /\ p["tdee"] = Num(102222500)

-----------------------------------------------------------------------------
(* C11 *)

\* C11: for every stored profile with valid inputs, calories is tdee - 500
\* for "Lose weight", tdee + 500 for "Gain weight" and tdee for "Maintain
\* weight" (both in 1/40000 kcal, so 500 kcal is 20000000).
C11_CalorieTarget ==
    \A u \in DOMAIN user_data_store :
        LET p == user_data_store[u]
        IN  ValidInputs(p) =>
              /\ p["tdee"].k = "num"
              /\ p["goal"] = "Lose weight" => p["calories"] = Num(p["tdee"].v - 20000000)
              /\ p["goal"] = "Gain weight" => p["calories"] = Num(p["tdee"].v + 20000000)
              /\ p["goal"] = "Maintain weight" => p["calories"] = p["tdee"]

\* The profile of the example of C10 is in the store with the goal "Lose
\* weight": tdee 2555.5625 and calories 2055.5625.
C11_Witness ==
    \E u \in DOMAIN user_data_store :
        LET p == user_data_store[u]
        IN  /\ ValidInputs(p)
            /\ p["goal"] = "Lose weight"
            /\ p["tdee"] = Num(102222500)
            /\ p["calories"] = Num(82222500)

-----------------------------------------------------------------------------
(* C12 *)

\* The table of the macro split, in percent
StatedSplit(g) ==
    CASE g = "Lose weight" -> [protein |-> 30, carb |-> 35, fat |-> 35]
      [] g = "Gain weight" -> [protein |-> 25, carb |-> 40, fat |-> 35]
      [] g = "Maintain weight" -> [protein |-> 25, carb |-> 35, fat |-> 40]

\* C12: the diet plan shown for a stored profile uses the table Lose weight
\* 30/35/35, Gain weight 25/40/35, Maintain weight 25/35/40 (protein /
\* carbohydrate / fat, in percent of the calorie target), and the grams are
\* the calories of each macronutrient divided by 4, 4 and 9.
C12_MacroSplit ==
    (last.handler = "generate_diet" /\ last.result = "plan") =>
        LET p == user_data_store[last.user]
            split == StatedSplit(p["goal"])
            plan == last.plan[1]
        IN  /\ plan.protein_percentage = split.protein
            /\ plan.carb_percentage = split.carb
            /\ plan.fat_percentage = split.fat
            /\ plan.protein_grams = FDiv(FTimesPercent(p["calories"], split.protein), 4)
            /\ plan.carb_grams = FDiv(FTimesPercent(p["calories"], split.carb), 4)
            /\ plan.fat_grams = FDiv(FTimesPercent(p["calories"], split.fat), 9)

-----------------------------------------------------------------------------
(* C13 *)

\* The last update was a request for a diet plan or for a menu
IsPlanOrMenuRequest(l) ==
    \/ l.handler \in {"generate_diet", "weekly_menu"}
    \/ l.handler = "handle_navigation" /\ l.input = <<"generate_menu">>

C13_Step(u) ==
    (/\ update_id' # update_id
     /\ last'.user = u
     /\ IsPlanOrMenuRequest(last')
     /\ u \notin DOMAIN user_data_store) =>
        /\ last'.sent[1] = "provide_body_data_first"
        /\ \A i \in 1..Len(last'.sent) :
               last'.sent[i] \in {"provide_body_data_first", "main_menu"}
        /\ last'.plan = <<>>
        /\ last'.requests = 0
        /\ user_data' = user_data
        /\ user_data_store' = user_data_store
        /\ conv' = conv

\* C13: /diet, /weekly_menu or the generate_menu choice by a user who has no
\* stored profile is answered with the 'provide your body data first' message
\* (and, for the navigation choice, the main menu again) and nothing else: no
\* plan is calculated, no request is sent to the text-generation service, and
\* the draft, the store and the conversation are unchanged.
C13_MissingProfileRequest == [][\A u \in Users : C13_Step(u)]_vars

\* A user with a draft in progress and no stored profile has asked for a
\* menu and was told to provide the body data first.
C13_Witness ==
    \E u \in Users :
        /\ Did(u, "weekly_menu") /\ last.result = "no_profile"
        /\ u \notin DOMAIN user_data_store
        /\ DOMAIN user_data[u] = {"gender", "age"}
        /\ conv[u] = WEIGHT

-----------------------------------------------------------------------------
(* C16 *)

\* C16: while a request made for user a is outstanding, an update of another
\* user b can still be handled: /start when b has no conversation, /cancel
\* when b has one.
C16_OtherUsersAreNotBlocked ==
    \A a, b \in Users :
        (a # b /\ call.user = a /\ update_id < UpdateLimit(b)) =>
            /\ conv[b] = END => ENABLED start(b)
            /\ conv[b] # END => ENABLED cancel(b)

-----------------------------------------------------------------------------
(* C14 *)

\* The messages of a sequence
Range(s) == {s[i] : i \in 1..Len(s)}

\* The request of the last update failed
CollaboratorFailed == last.requests > 0 /\ "apology" \in Range(last.sent)

C14_Returned ==
    \A u \in Users :
        /\ (client /\ PromptKeys \subseteq DOMAIN user_data[u]) =>
              generate_weekly_menu(user_data[u], "error") =
                  [raised |-> FALSE, kind |-> "apology", truthy |-> TRUE, requests |-> 1]
        /\ (Did(u, last.handler) /\ last.requests > 0) => last.result # "raised"
        /\ (/\ Did(u, last.handler) /\ CollaboratorFailed
            /\ call = NoCall /\ update_id < UpdateLimit(u)) =>
              /\ conv[u] = END => ENABLED start(u)
              /\ conv[u] # END => ENABLED cancel(u)
              /\ u \in DOMAIN user_data_store =>
                    ENABLED chat_completions_create(u, "weekly_menu")

C14_Step == last'.requests > 0 => user_data_store' = user_data_store

\* C14: when the request to the text-generation service fails, menu
\* generation returns the apology string as a value and the handler that
\* asked ends without an exception; the store is unchanged by it; and
\* afterwards the user can still enter an intake (by /start, after /cancel
\* when a conversation is running) and, with a stored profile, ask for a
\* menu again.
C14_CollaboratorFailureIsRecovered == [](C14_Returned) /\ [][C14_Step]_vars

\* A request made for the menu confirmation has failed and the apology was
\* sent to the user.
C14_Witness ==
    \E u \in Users :
        /\ Did(u, "menu_confirmation")
        /\ CollaboratorFailed
        /\ u \in DOMAIN user_data_store

-----------------------------------------------------------------------------
(* C15 *)

\* The last update made a handler invoke the menu generation
MenuGenerationInvoked ==
    /\ last.handler \in MenuHandlers
    /\ last.result \in {"menu_sent", "menu_failed", "raised"}

\* C15 as stated: every invocation of the menu generation sends exactly one
\* request to the text-generation service.
C15_ExactlyOneRequest == MenuGenerationInvoked => last.requests = 1

\* C15 as amended: every invocation of the menu generation sends exactly one
\* request when the client of the text-generation service is configured and
\* none when it is not; no update makes more than one request, so a failed
\* request is not sent again.
C15_AtMostOneRequest ==
    /\ MenuGenerationInvoked => last.requests = (IF client THEN 1 ELSE 0)
    /\ last.requests \in {0, 1}
    /\ CollaboratorFailed => last.requests = 1

\* A request made for /weekly_menu has failed: one request was sent and the
\* handler has ended.
C15_Witness ==
    /\ last.handler = "weekly_menu"
    /\ CollaboratorFailed
    /\ last.requests = 1
    /\ call = NoCall

-----------------------------------------------------------------------------
(* C17 *)

\* A word with its letters in lower case, for the spellings of the genders
CaseFolded(w) ==
    CASE w \in {"male", "Male", "MALE"} -> "male"
      [] w \in {"female", "Female", "FEMALE"} -> "female"
      [] OTHER -> w

\* C17: a gender that differs from an option only in letter case ('MALE',
\* 'male', 'Male') is accepted and stored in the canonical form.
C17_CaseInsensitiveChoices ==
    last.handler = "gender" =>
        LET g == Replace(last.input, "gender_")
        IN  (Len(g) = 1 /\ CaseFolded(g[1]) \in {"male", "female"}) =>
                /\ last.result = "accepted"
                /\ user_data[last.user]["gender"] =
                       (IF CaseFolded(g[1]) = "male" THEN "Male" ELSE "Female")

-----------------------------------------------------------------------------
(* C18 *)

\* The field a typed choice is for, and its validated value
ChoiceField(inp) ==
    CASE inp = <<"Male">> -> "gender"
      [] inp = <<"Medium activity">> -> "activity"
      [] inp = <<"Lose weight">> -> "goal"

C18_Step(u) ==
    (/\ update_id' # update_id
     /\ last'.user = u
     /\ last'.input \in ChoiceTexts
     /\ conv[u] = ChoiceState(last'.input)) =>
        /\ last'.result = "accepted"
        /\ conv'[u] = Successor(conv[u])
        /\ Has(user_data'[u], ChoiceField(last'.input))
        /\ user_data'[u][ChoiceField(last'.input)] = last'.input[1]

\* C18: in the Gender, ActivityLevel and Goal states a choice typed as text
\* that matches an option is accepted like the press of the option's button:
\* the validated value is written to the draft and the session moves to the
\* next state.
C18_TextAndSelectionAgree == [][\A u \in Users : C18_Step(u)]_vars

-----------------------------------------------------------------------------
(* C19 *)

\* C19: a /start handled for a user with a stored profile puts the session
\* in MENU_CONFIRM with the reuse-or-update choice and no intake question; a
\* /start handled for a user without one puts it in Gender and asks for the
\* gender.
C19_StartReusesStoredProfile ==
    \A u \in Users :
        Did(u, "start") =>
            IF u \in DOMAIN user_data_store
            THEN conv[u] = MENU_CONFIRM /\ last.sent = <<"welcome_back">>
            ELSE conv[u] = GENDER /\ last.sent = <<"welcome", "ask_gender">>

\* A user with a stored profile has sent /start and is offered the choice.
C19_Witness ==
    \E u \in Users :
        /\ Did(u, "start")
        /\ u \in DOMAIN user_data_store
        /\ conv[u] = MENU_CONFIRM

-----------------------------------------------------------------------------
(* C20 *)

\* The last update was a clear action
IsClear(l) ==
    \/ l.handler = "clear_data"
    \/ l.handler = "handle_navigation" /\ l.input = <<"clear_data">>

C20_Step(u) ==
    /\ (update_id' # update_id /\ last'.user = u /\ IsClear(last')) =>
          /\ u \notin DOMAIN user_data_store'
          /\ u \notin DOMAIN user_data_store =>
                /\ last'.sent[1] \in {"no_stored_data", "no_data_to_clear"}
                /\ user_data_store' = user_data_store
                /\ user_data' = user_data
                /\ conv' = conv
    /\ (u \in DOMAIN user_data_store /\ u \notin DOMAIN user_data_store') =>
          last'.user = u /\ IsClear(last')
    /\ (/\ u \in DOMAIN user_data_store /\ u \in DOMAIN user_data_store'
        /\ user_data_store'[u] # user_data_store[u]) =>
          last'.user = u /\ last'.handler = "goal" /\ last'.result = "accepted"

\* C20: after a clear action of user u (/clear_data or the clear_data
\* choice) u has no entry in the store; a clear without an entry reports that
\* no data was found and changes nothing; an entry leaves the store only by
\* its user's clear and changes only by its user's completed intake.
C20_ClearRemovesEntry == [][\A u \in Users : C20_Step(u)]_vars

\* A user has cleared the stored profile with the clear_data choice.
C20_Witness ==
    \E u \in Users :
        /\ Did(u, "handle_navigation") /\ last.input = <<"clear_data">>
        /\ last.result = "cleared"
        /\ u \notin DOMAIN user_data_store
        /\ Has(user_data[u], "calories")

-----------------------------------------------------------------------------
(* C21 *)

\* The handlers of the six intake states
IntakeHandlers == {"gender", "age", "weight", "height", "activity", "goal"}

\* C21: whatever input the handler of an intake state receives, the handler
\* either accepts it or asks the same question again; it never ends with an
\* exception.
C21_ValidationFailureNeverRaises ==
    last.handler \in IntakeHandlers => last.result \in {"accepted", "reprompt"}

-----------------------------------------------------------------------------
(* C22 *)

\* The six answers of the intake
InputKeys == {"gender", "age", "weight", "height", "activity", "goal"}

\* The Goal step of user u has just stored a profile over an entry with the
\* same six answers
RerunWithSameInputs(u) ==
    /\ Did(u, "goal") /\ last.result = "accepted"
    /\ last.stored_before # <<>>
    /\ u \in DOMAIN user_data_store
    /\ \A k \in InputKeys :
           user_data_store[u][k] = last.stored_before[1][k]

-----------------------------------------------------------------------------
(* C23 *)

\* The texts of a sequence joined in their order
RECURSIVE Concatenated(_)
Concatenated(texts) ==
    IF texts = <<>> THEN <<>> ELSE Head(texts) \o Concatenated(Tail(texts))

\* C23: the messages a non-empty menu text is sent as are each at most 4000
\* characters long and, joined in the order they are sent, give the text; a
\* text of 9000 characters is sent as 3 messages and a text of at most 4000
\* characters as one.
C23_PartsReproduceTheMenu ==
    (menu_text # <<>> /\ parts # <<>>) =>
        /\ \A j \in 1..Len(parts) : Len(parts[j]) \in 1..4000
        /\ Concatenated(parts) = menu_text
        /\ Len(menu_text) = 9000 => Len(parts) = 3
        /\ Len(menu_text) <= 4000 => parts = <<menu_text>>

\* A text of 9000 characters has been sent as messages of 4000, 4000 and
\* 1000 characters.
C23_Witness ==
    /\ Len(menu_text) = 9000
    /\ Len(parts) = 3
    /\ Len(parts[1]) = 4000 /\ Len(parts[2]) = 4000 /\ Len(parts[3]) = 1000

-----------------------------------------------------------------------------
(* C24 *)

\* A text without markdown markup: no "#", "*" or "_"
IsPlain(text) == \A i \in 1..Len(text) : text[i] \notin {"#", "*", "_"}

\* C24: for an answer of the service without markdown markup (day and meal
\* names included), formatting the formatted text again gives the same text.
C24_FormattingIsIdempotent ==
    (parts # <<>> /\ IsPlain(menu_text)) =>
        LET once == format_menu_as_plain_text(menu_text)
        IN  format_menu_as_plain_text(once) = once

-----------------------------------------------------------------------------
(* C25 *)

\* C25: while a request for user u is with the text-generation service, the
\* profile it was built from (context.user_data of u as passed to
\* generate_weekly_menu) is u's entry in the store.
C25_RequestUsesStoredProfile ==
    call # NoCall =>
        /\ call.user \in DOMAIN user_data_store
        /\ user_data[call.user] = user_data_store[call.user]

-----------------------------------------------------------------------------
(* C26 *)

\* The handlers outside the conversation that the claim names
OutsideHandlers == {"generate_diet", "weekly_menu", "handle_navigation"}

\* This step is /diet, /weekly_menu or the generate_menu choice of user u,
\* or the part of one that runs up to the request to the service
OutsideCommandStep(u) ==
    \/ /\ update_id' # update_id
       /\ last'.user = u
       /\ last'.handler \in OutsideHandlers
       /\ last'.handler = "handle_navigation" => last'.input = <<"generate_menu">>
    \/ /\ call = NoCall /\ call' # NoCall
       /\ call'.user = u
       /\ call'.handler \in OutsideHandlers

C26_Step(u) ==
    (conv[u] \in IntakeStates /\ OutsideCommandStep(u)) =>
        user_data'[u] = user_data[u]

\* C26: /diet, /weekly_menu and the generate_menu choice, handled while the
\* intake of the user is in progress, leave the draft as it is, so that the
\* Goal step computes from the values accepted in the current run.
C26_OutsideCommandsKeepDraft == [][\A u \in Users : C26_Step(u)]_vars

-----------------------------------------------------------------------------
(* C27 *)

\* C27: when the request of the last update failed, the caller has taken its
\* failure branch: it has sent its apology, it has not sent "Your menu is
\* ready" with the tip prompt, and the session is not in TIP_AMOUNT.
C27_CallersTakeFailureBranch ==
    CollaboratorFailed =>
        /\ last.result = "menu_failed"
        /\ "apology_try_later" \in Range(last.sent)
        /\ "menu_ready_tip_prompt" \notin Range(last.sent)
        /\ conv[last.user] # TIP_AMOUNT

-----------------------------------------------------------------------------
(* C28 *)

\* C28: of every user, the test of /start and of the navigation handler
\* (an entry whose calories value is truthy) and the test of /diet and
\* /weekly_menu (an entry with a calories key) give the same answer; a user
\* with a store entry is a returning user for /start.
C28_ProfileTestsAgree ==
    \A u \in Users :
        /\ has_previous_data(user_data_store, u) = has_calories_key(user_data_store, u)
        /\ u \in DOMAIN user_data_store => has_previous_data(user_data_store, u)

-----------------------------------------------------------------------------
(* C29 *)

FPositive(x) == x.k = "num" /\ x.v > 0

\* C29: in every stored profile with valid inputs the bmr, the tdee and the
\* calorie target are greater than 0.
C29_ResultsArePositive ==
    \A u \in DOMAIN user_data_store :
        LET p == user_data_store[u]
        IN  ValidInputs(p) =>
              FPositive(p["bmr"]) /\ FPositive(p["tdee"]) /\ FPositive(p["calories"])

-----------------------------------------------------------------------------
(* C30 *)

\* C30: in every diet plan shown, the percentages of protein, carbohydrates
\* and fat add up to 100.
C30_PercentagesSumTo100 ==
    last.plan # <<>> =>
        last.plan[1].protein_percentage + last.plan[1].carb_percentage
            + last.plan[1].fat_percentage = 100

====
